---- MODULE Spec2Model ----
(***************************************************************************)
(* Model of the AI request dispatch subsystem of girl-guy.ai:              *)
(*   SMS/tokens.py        - the token ledger                               *)
(*   ai/request_queue.py  - the per-user admission lock                    *)
(*   ai/model_router.py   - provider health tracking and fallback dispatch *)
(*   ai/chat.py           - run_chat_turn / format_persona_response        *)
(*   ai/handlers_chat.py  - the orchestrator (_process_message)            *)
(*                                                                         *)
(* Texts are sequences of tokens: "glyph" stands for a leading marker      *)
(* glyph, "fail" for one of the failure substrings the orchestrator looks  *)
(* for, "tag" for the markup format_persona_response adds, and a model     *)
(* name stands for the ordinary words that model produced.                 *)
(***************************************************************************)
EXTENDS Integers, Sequences, FiniteSets, TLC

----------------------------------------------------------------------------
(* Bounds of the exploration *)

MaxTurns == 2
NumModels == 2
MaxMsgs == 2
MaxCredits == 1
MaxTicks == 1
MaxOps == 2
MaxFailCount == 3
NumProcs == 2
MaxAmount == 1

(* Program constants *)

DEFAULT_START_TOKENS == 20
max_retries == 3
max_retries_per_model == 3
FAILURE_THRESHOLD == 3
cleanup_interval == 300
RECOVERY_WINDOW == 600
RECENT_WINDOW == 600
RECENT_BONUS == 1000
WORKING_BONUS == 500
FAILURE_PENALTY == 100
StartTime == 900

Users == {1}
Turns == 1..MaxTurns
Procs == 1..NumProcs

----------------------------------------------------------------------------
(* Registry: ai/model_router.py _initialize_models, in registration order *)

AllModels == <<"Gemini3Pro", "DeepSeek", "Gemini2Flash", "Grok41", "KimiK2">>
AllPriorities == <<150, 100, 80, 70, 60>>

RegCount == IF NumModels < Len(AllModels) THEN NumModels ELSE Len(AllModels)
Models == {AllModels[i] : i \in 1..RegCount}
RegIndex(m) == CHOOSE i \in 1..RegCount : AllModels[i] = m
Priority(m) == AllPriorities[RegIndex(m)]

----------------------------------------------------------------------------
(* Texts *)

Glyph == "glyph"
FailWord == "fail"
Tag == "tag"

\* model_router.py:170  "no providers available" sentinel (no failure substring)
NoModelsSentinel == <<Glyph, "admin">>
\* model_router.py:243  "all providers unavailable" sentinel (contains "попробуйте позже")
AllDownSentinel == <<Glyph, FailWord>>
\* chat.py:334  fixed prompt returned for a blank message
BlankPrompt == <<"write">>

\* chat.py:211-287: every non-empty line is wrapped in markup, so the
\* formatted text starts with the markup and keeps the line's words.
format_persona_response(text) == IF text = <<>> THEN <<>> ELSE <<Tag>> \o text

StartsWithGlyph(text) == Len(text) > 0 /\ text[1] = Glyph
ContainsFail(text) == \E i \in 1..Len(text) : text[i] = FailWord

\* model_router.py:198  the router's success test on a str response
RouterSuccess(text) == Len(text) > 0 /\ ~StartsWithGlyph(text)

\* An error test that looks at the first character only
is_errorGlyphOnly(response) == StartsWithGlyph(response)

\* handlers_chat.py:84-93  the orchestrator's error test
is_error(response) == StartsWithGlyph(response) \/ ContainsFail(response)

----------------------------------------------------------------------------
VARIABLES
    store,        \* token_balances table: user -> row
    unlimited,    \* premium.subscription.is_premium_unlimited per user
    active,       \* FSM data persona_chat_active per user
    marker,       \* RequestLock._active_requests (set of user ids)
    sent,         \* the last thing the bot sent into the user's chat
    turn,         \* message handlers: turn -> record
    health,       \* ModelStatus per registered model
    enabled,      \* ModelProvider.enabled per registered model
    priority,     \* ModelProvider.priority per registered model
    now,          \* time.time()
    last_cleanup, \* ModelRouter._last_cleanup_time
    msgs,         \* number of messages admitted so far
    credits,      \* number of external credits so far
    proc,         \* ledger clients: proc -> record
    ops           \* number of ledger calls made by the clients so far

vars == <<store, unlimited, active, marker, sent, turn, health, enabled,
          priority, now, last_cleanup, msgs, credits, proc, ops>>

routerVars == <<health, enabled, priority, now, last_cleanup>>

----------------------------------------------------------------------------
(* Token ledger: SMS/tokens.py *)

AbsentRow == [kind |-> "absent", tokens |-> 0]
CorruptRow == [kind |-> "corrupt", tokens |-> 0]
IntRow(n) == [kind |-> "int", tokens |-> n]

\* tokens.py:186-198 and 127-139: the current balance as consume_tokens and
\* add_tokens read it
CurrentOf(row) ==
    IF row.kind = "absent" THEN DEFAULT_START_TOKENS
    ELSE IF row.kind = "corrupt" THEN 0
    ELSE row.tokens

\* tokens.py:35-48: the value get_token_balance returns for an existing row
BalanceOfRow(row) == IF row.kind = "int" THEN row.tokens ELSE 0

\* An upsert of the default in place of the insert-if-absent
InsertOrReplace(row) == IntRow(DEFAULT_START_TOKENS)

\* tokens.py:51-58: INSERT ... ON CONFLICT(user_id) DO NOTHING
InsertIfAbsent(row) == IF row.kind = "absent" THEN IntRow(DEFAULT_START_TOKENS) ELSE row

\* tokens.py:20-86 as one uninterrupted call; dberr = the storage failed
get_token_balance(st, u, dberr) ==
    IF dberr THEN [ret |-> 0, store |-> st]
    ELSE IF st[u].kind # "absent" THEN [ret |-> BalanceOfRow(st[u]), store |-> st]
    ELSE [ret |-> DEFAULT_START_TOKENS,
          store |-> [st EXCEPT ![u] = InsertIfAbsent(st[u])]]

\* set_token_balance without its clamp
ClampAmountNone(amount) == amount

\* tokens.py:91-92
ClampAmount(amount) == IF amount < 0 THEN 0 ELSE amount

\* tokens.py:141
AddNewBalance(current, amount) == IF current + amount < 0 THEN 0 ELSE current + amount

\* The refusal test with <= in place of <
ConsumeRefusedAtEqual(current, amount) == current <= amount

\* tokens.py:200
ConsumeRefused(current, amount) == current < amount

\* A debit that stores the balance it read
ConsumeNewBalanceKeeps(current, amount) == current

\* tokens.py:204
ConsumeNewBalance(current, amount) == current - amount

\* tokens.py:160-220 as one uninterrupted call.
\* unl = is_premium_unlimited returned True; a raising predicate is unl = FALSE
consume_tokens(st, u, amount, unl) ==
    IF amount <= 0 THEN [ret |-> TRUE, store |-> st]
    ELSE IF unl THEN [ret |-> TRUE, store |-> st]
    ELSE IF ConsumeRefused(CurrentOf(st[u]), amount) THEN [ret |-> FALSE, store |-> st]
    ELSE [ret |-> TRUE,
          store |-> [st EXCEPT ![u] = IntRow(ConsumeNewBalance(CurrentOf(st[u]), amount))]]

\* tokens.py:114-157 as one uninterrupted call (amount # 0)
add_tokens(st, u, amount) ==
    [st EXCEPT ![u] = IntRow(AddNewBalance(CurrentOf(st[u]), amount))]

----------------------------------------------------------------------------
(* Provider health: ai/model_router.py *)

\* model_router.py:16-25, 68
InitStatus ==
    [is_working |-> TRUE, last_success_time |-> 0, last_failure_time |-> 0,
     consecutive_failures |-> 0]

\* A mark_success that keeps the failure count
mark_successKeepsCount(h, t) ==
    [h EXCEPT !.is_working = TRUE, !.last_success_time = t]

\* model_router.py:108-114
mark_success(h, t) ==
    [h EXCEPT !.is_working = TRUE, !.last_success_time = t,
              !.consecutive_failures = 0]

\* A mark_failure that takes the provider out of service one failure later
mark_failureLate(h, t) ==
    [h EXCEPT !.last_failure_time = t,
              !.consecutive_failures = h.consecutive_failures + 1,
              !.is_working = IF h.consecutive_failures + 1 > FAILURE_THRESHOLD
                             THEN FALSE ELSE h.is_working]

\* model_router.py:116-128
mark_failure(h, t) ==
    [h EXCEPT !.last_failure_time = t,
              !.consecutive_failures = h.consecutive_failures + 1,
              !.is_working = IF h.consecutive_failures + 1 >= FAILURE_THRESHOLD
                             THEN FALSE ELSE h.is_working]

\* A sweep on every call
CleanupSkippedNever(t, lc) == FALSE

\* model_router.py:133
CleanupSkipped(t, lc) == t - lc < cleanup_interval

\* A sweep that forgives nothing
AmnestiedNever(h, t) == h

\* A sweep that puts the provider back into service and keeps its count
AmnestiedKeepsCount(h, t) ==
    IF ~h.is_working /\ t - h.last_failure_time > RECOVERY_WINDOW
    THEN [h EXCEPT !.is_working = TRUE]
    ELSE h

\* A sweep that forgets the failures of every provider whose last failure is
\* old enough
AmnestiedAll(h, t) ==
    IF t - h.last_failure_time > RECOVERY_WINDOW
    THEN [h EXCEPT !.is_working = TRUE, !.consecutive_failures = 0]
    ELSE h

\* model_router.py:141-146
Amnestied(h, t) ==
    IF ~h.is_working /\ t - h.last_failure_time > RECOVERY_WINDOW
    THEN [h EXCEPT !.is_working = TRUE, !.consecutive_failures = 0]
    ELSE h

\* model_router.py:130-146: the statuses and _last_cleanup_time after the call
cleanup_statuses(hl, t, lc) ==
    IF CleanupSkipped(t, lc) THEN [health |-> hl, last_cleanup |-> lc]
    ELSE [health |-> [m \in Models |-> Amnestied(hl[m], t)], last_cleanup |-> t]

\* A score that forgets the failure penalty
ScoreNoPenalty(m, h, t) ==
    priority[m]
    + (IF t - h.last_success_time < RECENT_WINDOW THEN RECENT_BONUS ELSE 0)
    + (IF h.is_working THEN WORKING_BONUS ELSE 0)

\* model_router.py:84-103: sort_key, first component negated
Score(m, h, t) ==
    priority[m]
    + (IF t - h.last_success_time < RECENT_WINDOW THEN RECENT_BONUS ELSE 0)
    + (IF h.is_working THEN WORKING_BONUS ELSE 0)
    - h.consecutive_failures * FAILURE_PENALTY

\* Order of two models under list.sort(key=sort_key): the key tuple, then
\* (the sort is stable) the registration order.
SortsBefore(a, b, hl, t) ==
    LET ka == 0 - Score(a, hl[a], t)
        kb == 0 - Score(b, hl[b], t)
        ta == t - hl[a].last_success_time
        tb == t - hl[b].last_success_time
    IN  \/ ka < kb
        \/ ka = kb /\ ta < tb
        \/ ka = kb /\ ta = tb /\ RegIndex(a) < RegIndex(b)

\* model_router.py:79-106
get_available_models(hl, en, t) ==
    LET avail == {m \in Models : en[m]}
        n == Cardinality(avail)
    IN  CHOOSE s \in [1..n -> avail] :
            /\ \A i, j \in 1..n : i < j => SortsBefore(s[i], s[j], hl, t)

----------------------------------------------------------------------------
(* What one call of a provider's send_function can do *)

StrOutcome(text) == [kind |-> "str", text |-> text]
Outcomes(m) ==
    { StrOutcome(<<m>>),              \* usable text
      StrOutcome(<<m, FailWord>>),    \* usable text that contains a failure phrase
      StrOutcome(<<Glyph, m>>),       \* error-shaped text
      StrOutcome(<<>>),               \* empty string
      [kind |-> "none", text |-> <<>>],    \* None
      [kind |-> "nonstr", text |-> <<>>],  \* a truthy value that is not a str
      [kind |-> "raise", text |-> <<>>] }  \* raises

\* model_router.py:184-239: how one attempt is classified.
\* A truthy non-str has no startswith: the call raises inside the try block.
AttemptSucceeds(o) == o.kind = "str" /\ RouterSuccess(o.text)

\* An attempt loop with one attempt more
AttemptsRemainOneMore(attempt) == attempt < max_retries_per_model

\* model_router.py:208, 225
AttemptsRemain(attempt) == attempt < max_retries_per_model - 1

----------------------------------------------------------------------------
(* Admission lock: ai/request_queue.py *)

\* A lock that never reports a request in progress
has_active_requestNever(mk, u) == FALSE

\* request_queue.py:22-24
has_active_request(mk, u) == u \in mk
\* request_queue.py:26-29
start_request(mk, u) == mk \cup {u}
\* request_queue.py:31-35
finish_request(mk, u) == mk \ {u}
\* request_queue.py:37-41
clear(mk, u) == mk \ {u}

----------------------------------------------------------------------------
(* Orchestrator: ai/handlers_chat.py.  A turn is one run of
   handle_persona_chat_message; its record holds the handler's locals. *)

IdleTurn ==
    [pc |-> "idle", user |-> 1, blank |-> FALSE,
     bal |-> 0,            \* balance (handlers_chat.py:51)
     unl |-> FALSE,        \* is_unlimited (handlers_chat.py:54-59)
     premraised |-> FALSE, \* is_premium_unlimited raised at handlers_chat.py:57
     consumed |-> FALSE,   \* tokens_consumed (handlers_chat.py:74, 98)
     unlc |-> FALSE,       \* is_premium_unlimited as consume_tokens saw it
     routed |-> "none",    \* how the router returned: none, success, sentinel, raised
     raw |-> <<>>,         \* what send_chat_completion returned (chat.py:345)
     resp |-> <<>>,        \* response (handlers_chat.py:80)
     cands |-> <<>>,       \* available_models (model_router.py:166)
     idx |-> 0,            \* position in available_models
     attempt |-> 0,        \* attempt (model_router.py:183)
     calls |-> 0,          \* send_function calls this dispatch call has made
     tried |-> {},         \* models whose attempts this call has exhausted
     debit |-> "none",     \* consume_tokens at handlers_chat.py:97: not called
                           \* ("none"), returned True ("done"), returned
                           \* False ("refused") or raised ("raised")
     touched |-> FALSE,    \* another ledger write for the user during the turn
     cleared |-> FALSE]    \* clear(user) ran during the turn

InFlightPcs == {"thread", "calling", "returned", "send", "notice"}
InFlight(t) == turn[t].pc \in InFlightPcs
DispatchPcs == {"thread", "calling"}

\* Marks the other in-flight turns of user u as having seen a foreign ledger write
Touch(tr, u, self) ==
    [s \in DOMAIN tr |->
        IF s # self /\ tr[s].pc \in InFlightPcs /\ tr[s].user = u
        THEN [tr[s] EXCEPT !.touched = TRUE] ELSE tr[s]]

\* An entitlement check that lets the user through when it cannot tell
EntitlementFlagOpen(value, raised) == value \/ raised

\* handlers_chat.py:54-59: is_unlimited; value = what is_premium_unlimited
\* returns when it returns, raised = it raises instead
EntitlementFlag(value, raised) == IF raised THEN FALSE ELSE value

\* The admission test with 0 in place of 1
AdmissionDeniedBelowZero(is_unlimited, balance) == ~is_unlimited /\ balance < 0

\* handlers_chat.py:62
AdmissionDenied(is_unlimited, balance) == ~is_unlimited /\ balance < 1

\* handlers_chat.py:96
DebitDue(is_unlimited, response) == ~is_unlimited /\ ~is_error(response)

\* knops/handlers_menu.py:403-447: a chat session is started
StartChat(u) ==
    /\ ~active[u]
    /\ LET g == get_token_balance(store, u, FALSE)
       IN  /\ unlimited[u] \/ g.ret > 0
           /\ store' = IF unlimited[u] THEN store ELSE g.store
    /\ active' = [active EXCEPT ![u] = TRUE]
    /\ UNCHANGED <<unlimited, marker, sent, turn, msgs, credits, proc, ops>>
    /\ UNCHANGED routerVars

\* handlers_chat.py:27-37 with chat_state.py:10-21
stop_persona_chat(u) ==
    /\ active[u]
    /\ active' = [active EXCEPT ![u] = FALSE]
    /\ marker' = clear(marker, u)
    /\ turn' = [s \in DOMAIN turn |->
                  IF InFlight(s) /\ turn[s].user = u
                  THEN [turn[s] EXCEPT !.cleared = TRUE] ELSE turn[s]]
    /\ UNCHANGED <<store, unlimited, sent, msgs, credits, proc, ops>>
    /\ UNCHANGED routerVars

\* chat_state.py:10-21 called from the menu handlers, which leave the lock alone
deactivate_persona_chat(u) ==
    /\ active[u]
    /\ active' = [active EXCEPT ![u] = FALSE]
    /\ UNCHANGED <<store, unlimited, marker, sent, turn, msgs, credits, proc, ops>>
    /\ UNCHANGED routerVars

\* handlers_chat.py:147-166 and 47-74: a message arrives for an active chat.
\* Everything up to the hand-over to the worker thread (or up to the send of
\* the "not enough tokens" notice) runs without suspension on the event loop.
Arrive(t, u, blank, dberr, premErr) ==
    /\ turn[t].pc = "idle"
    /\ \A s \in DOMAIN turn : s < t => turn[s].pc # "idle"
    /\ active[u]
    /\ IF has_active_request(marker, u)
       THEN /\ turn' = [turn EXCEPT ![t] = [@ EXCEPT !.pc = "dropped", !.user = u]]
            /\ UNCHANGED <<store, marker, sent>>
       ELSE LET g == get_token_balance(store, u, dberr)
                is_unlimited == EntitlementFlag(unlimited[u], premErr)
                r == [turn[t] EXCEPT !.user = u, !.bal = g.ret, !.unl = is_unlimited,
                                     !.premraised = premErr]
            IN  /\ store' = g.store
                /\ IF AdmissionDenied(is_unlimited, g.ret)
                   THEN /\ turn' = [turn EXCEPT ![t] = [r EXCEPT !.pc = "denied"]]
                        /\ UNCHANGED <<marker, sent>>
                   ELSE /\ turn' = [turn EXCEPT ![t] =
                                      [r EXCEPT !.pc = "thread", !.blank = blank]]
                        /\ marker' = start_request(marker, u)
                        /\ UNCHANGED sent
    /\ msgs' = IF turn'[t].pc = "thread" THEN msgs + 1 ELSE msgs
    /\ msgs' <= MaxMsgs
    /\ UNCHANGED <<unlimited, active, credits, proc, ops>>
    /\ UNCHANGED routerVars

\* handlers_chat.py:63-67 and 160-163: the handler of a refused or ignored
\* message returns
Return(t) ==
    /\ turn[t].pc \in {"denied", "dropped"}
    /\ turn' = [turn EXCEPT ![t] = IdleTurn]
    /\ sent' = IF turn[t].pc = "denied"
               THEN [sent EXCEPT ![turn[t].user] = "denied"] ELSE sent
    /\ UNCHANGED <<store, unlimited, active, marker, msgs, credits, proc, ops>>
    /\ UNCHANGED routerVars

----------------------------------------------------------------------------
(* Dispatch: ai/chat.py run_chat_turn and ai/model_router.py
   send_chat_completion, run in a worker thread (handlers_chat.py:80) *)

\* A router that gives up after the first candidate
MoreCandidatesNone(idx, cands) == FALSE

\* model_router.py:180, 234-239: after a model's last attempt the outer loop
\* goes on to the next candidate, if there is one
MoreCandidates(idx, cands) == idx < Len(cands)

\* A router whose attempt loop has no except clause
AttemptResultUncaught(o, attempt) ==
    IF o.kind \in {"raise", "nonstr"} THEN "raised"
    ELSE IF AttemptSucceeds(o) THEN "success"
    ELSE IF AttemptsRemain(attempt) THEN "retry"
    ELSE "exhausted"

\* model_router.py:184-239: what the router does with one attempt's outcome
AttemptResult(o, attempt) ==
    IF AttemptSucceeds(o) THEN "success"
    ELSE IF AttemptsRemain(attempt) THEN "retry"
    ELSE "exhausted"

\* The handler's record when send_chat_completion has returned text and
\* run_chat_turn has formatted it (chat.py:339-364)
Returned(r, how, text) ==
    [r EXCEPT !.pc = "returned", !.routed = how, !.raw = text,
              !.resp = format_persona_response(text),
              !.cands = <<>>, !.idx = 0, !.attempt = 0, !.calls = 0]

\* chat.py:325-343 and model_router.py:164-170
ThreadBegin(t) ==
    /\ turn[t].pc = "thread"
    /\ IF turn[t].blank
       THEN /\ turn' = [turn EXCEPT ![t] = [@ EXCEPT !.pc = "returned",
                                                     !.resp = BlankPrompt]]
            /\ UNCHANGED <<health, last_cleanup>>
       ELSE LET c == cleanup_statuses(health, now, last_cleanup)
                available_models == get_available_models(c.health, enabled, now)
            IN  /\ health' = c.health
                /\ last_cleanup' = c.last_cleanup
                /\ IF available_models = <<>>
                   THEN turn' = [turn EXCEPT ![t] =
                                   Returned(@, "sentinel", NoModelsSentinel)]
                   ELSE turn' = [turn EXCEPT ![t] =
                            [@ EXCEPT !.pc = "calling", !.cands = available_models,
                                      !.idx = 1, !.attempt = 0]]
    /\ UNCHANGED <<store, unlimited, active, marker, sent, msgs, credits, proc, ops, enabled,
                   priority, now>>

\* A loop that looks its candidate up in a list sorted afresh
CandidateAtLive(cands, idx, live) == live[idx]

\* model_router.py:180: the loop runs over the list made at line 166; live is
\* what _get_available_models would return now
CandidateAt(cands, idx, live) == cands[idx]

\* model_router.py:183-239 (one pass of the attempt loop) and, when the
\* router returns, chat.py:345-364
Invoke(t, o) ==
    /\ turn[t].pc = "calling"
    /\ LET r == turn[t]
           m == CandidateAt(r.cands, r.idx,
                            get_available_models(health, enabled, now))
           res == AttemptResult(o, r.attempt)
       IN  /\ o \in Outcomes(m)
           /\ CASE res = "success" ->
                    /\ health' = [health EXCEPT ![m] = mark_success(@, now)]
                    /\ turn' = [turn EXCEPT ![t] = Returned(r, "success", o.text)]
                [] res = "retry" ->
                    /\ turn' = [turn EXCEPT ![t] =
                                  [r EXCEPT !.attempt = r.attempt + 1,
                                            !.calls = r.calls + 1]]
                    /\ UNCHANGED health
                [] res = "exhausted" ->
                    /\ health[m].consecutive_failures < MaxFailCount
                    /\ health' = [health EXCEPT ![m] = mark_failure(@, now)]
                    /\ IF MoreCandidates(r.idx, r.cands)
                       THEN turn' = [turn EXCEPT ![t] =
                              [r EXCEPT !.idx = r.idx + 1, !.attempt = 0,
                                        !.calls = r.calls + 1,
                                        !.tried = r.tried \cup {m}]]
                       ELSE turn' = [turn EXCEPT ![t] =
                              Returned([r EXCEPT !.tried = r.tried \cup {m}],
                                       "sentinel", AllDownSentinel)]
                [] OTHER ->  \* the exception leaves send_chat_completion
                    /\ turn' = [turn EXCEPT ![t] = Returned(r, "raised", <<>>)]
                    /\ UNCHANGED health
    /\ UNCHANGED <<store, unlimited, active, marker, sent, msgs, credits, proc, ops, enabled,
                   priority, now,
                   last_cleanup>>

----------------------------------------------------------------------------
(* Orchestrator after the dispatch: handlers_chat.py:82-144 *)

\* finish_request at the end of the try body instead of in a finally block
FinallyOnNormalExit(mk, u, exceptional) ==
    IF exceptional THEN mk ELSE finish_request(mk, u)

\* handlers_chat.py:142-144: the finally block runs on the normal exit and on
\* the exit through the except block alike
Finally(mk, u, exceptional) == finish_request(mk, u)

\* handlers_chat.py:132-141: the except block runs for the handler with record
\* r.  refundErr = add_tokens raised, which leaves through the finally block;
\* otherwise the handler waits for the error notice to be sent.
ExceptBlock(t, r, refundErr) ==
    IF r.consumed /\ refundErr
    THEN /\ turn' = [turn EXCEPT ![t] = IdleTurn]
         /\ marker' = Finally(marker, r.user, TRUE)
         /\ UNCHANGED store
    ELSE /\ store' = IF r.consumed THEN add_tokens(store, r.user, 1) ELSE store
         /\ turn' = [Touch(turn, r.user, IF r.consumed THEN t ELSE 0)
                       EXCEPT ![t] = [r EXCEPT !.pc = "notice"]]
         /\ UNCHANGED marker

\* handlers_chat.py:84-107: classification, debit and the saving of the
\* context, which run without suspension once the worker thread has returned.
\* dbErr = consume_tokens raised, saveErr = state.update_data raised.
Settle(t, premErr, dbErr, saveErr, refundErr) ==
    /\ turn[t].pc = "returned"
    /\ LET r == turn[t]
           u == r.user
           unlc == unlimited[u] /\ ~premErr
           c == consume_tokens(store, u, 1, unlc)
           debited == [r EXCEPT !.consumed = c.ret, !.unlc = unlc,
                                !.debit = IF c.ret THEN "done" ELSE "refused"]
       IN  IF r.routed = "raised"
           THEN ExceptBlock(t, r, FALSE)
           ELSE IF ~DebitDue(r.unl, r.resp)
           THEN IF saveErr
                THEN ExceptBlock(t, r, FALSE)
                ELSE /\ turn' = [turn EXCEPT ![t] = [r EXCEPT !.pc = "send"]]
                     /\ UNCHANGED <<store, marker>>
           ELSE IF dbErr
           THEN ExceptBlock(t, [r EXCEPT !.debit = "raised"], FALSE)
           ELSE IF saveErr
           THEN IF c.ret /\ refundErr
                THEN /\ store' = c.store
                     /\ turn' = [Touch(turn, u, IF c.store # store THEN t ELSE 0)
                                   EXCEPT ![t] = IdleTurn]
                     /\ marker' = Finally(marker, u, TRUE)
                ELSE /\ store' = IF c.ret THEN add_tokens(c.store, u, 1) ELSE c.store
                     /\ turn' = [Touch(turn, u, IF c.ret THEN t ELSE 0)
                                   EXCEPT ![t] = [debited EXCEPT !.pc = "notice"]]
                     /\ UNCHANGED marker
           ELSE /\ store' = c.store
                /\ turn' = [Touch(turn, u, IF c.store # store THEN t ELSE 0)
                              EXCEPT ![t] = [debited EXCEPT !.pc = "send"]]
                /\ UNCHANGED marker
    /\ UNCHANGED <<unlimited, active, sent, msgs, credits, proc, ops>>
    /\ UNCHANGED routerVars

\* handlers_chat.py:114-131: the reply is sent, and sent again without a parse
\* mode if the first send raised.  ok = one of the two sends went through.
Deliver(t, ok, refundErr) ==
    /\ turn[t].pc = "send"
    /\ IF ok
       THEN /\ turn' = [turn EXCEPT ![t] = IdleTurn]
            /\ marker' = Finally(marker, turn[t].user, FALSE)
            /\ sent' = [sent EXCEPT ![turn[t].user] = "reply"]
            /\ UNCHANGED store
       ELSE /\ ExceptBlock(t, turn[t], refundErr)
            /\ UNCHANGED sent
    /\ UNCHANGED <<unlimited, active, msgs, credits, proc, ops>>
    /\ UNCHANGED routerVars

\* handlers_chat.py:141-144: the error notice is sent (ok) or the send raises,
\* then the finally block runs
Notice(t, ok) ==
    /\ turn[t].pc = "notice"
    /\ turn' = [turn EXCEPT ![t] = IdleTurn]
    /\ marker' = Finally(marker, turn[t].user, TRUE)
    /\ sent' = IF ok THEN [sent EXCEPT ![turn[t].user] = "error"] ELSE sent
    /\ UNCHANGED <<store, unlimited, active, msgs, credits, proc, ops>>
    /\ UNCHANGED routerVars

----------------------------------------------------------------------------
(* Environment of the orchestrator *)

\* payments/handlers.py:210 and the like: tokens are credited from outside
Credit(u) ==
    /\ credits < MaxCredits
    /\ credits' = credits + 1
    /\ store' = add_tokens(store, u, 1)
    /\ turn' = Touch(turn, u, 0)
    /\ UNCHANGED <<unlimited, active, marker, sent, msgs, proc, ops>>
    /\ UNCHANGED routerVars

\* admin/manage_tokens.py:27-34: an administrator sets the user's balance
set_balance(u, amount) ==
    /\ store' = [store EXCEPT ![u] = IntRow(ClampAmount(amount))]
    /\ turn' = Touch(turn, u, 0)
    /\ UNCHANGED <<unlimited, active, marker, sent, msgs, credits, proc, ops>>
    /\ UNCHANGED routerVars

\* premium/subscription.py: the unlimited plan is bought or runs out
SetUnlimited(u) ==
    /\ unlimited' = [unlimited EXCEPT ![u] = ~@]
    /\ UNCHANGED <<store, active, marker, sent, turn, msgs, credits, proc, ops>>
    /\ UNCHANGED routerVars

\* A ledger client's locals: read/current = the SELECT has run and what it
\* gave, new_balance = the value for the upsert, ret/ok = what the call returns
IdleProc == [pc |-> "idle", op |-> "none", user |-> 1, amount |-> 0,
             read |-> FALSE, current |-> 0, new_balance |-> 0,
             attempt |-> 0,      \* get_token_balance: attempt (tokens.py:26)
             err |-> "none",     \* get_token_balance: the last attempt's error
             failed |-> FALSE,   \* get_token_balance gave up (tokens.py:77-86)
             ret |-> 0, ok |-> TRUE, wrote |-> FALSE]

InitRows == {AbsentRow, CorruptRow, IntRow(0), IntRow(1)}

\* Registries in which at most the first registered model is enabled
FirstOnly == {en \in [Models -> BOOLEAN] : \A m \in Models : en[m] => RegIndex(m) = 1}

InitCommon ==
    /\ active = [u \in Users |-> FALSE]
    /\ marker = {}
    /\ sent = [u \in Users |-> "none"]
    /\ health = [m \in Models |-> InitStatus]
    /\ priority = [m \in Models |-> Priority(m)]
    /\ now = StartTime
    /\ last_cleanup = StartTime
    /\ msgs = 0
    /\ credits = 0
    /\ proc = [p \in Procs |-> IdleProc]
    /\ ops = 0

----------------------------------------------------------------------------
(* Spec: the orchestrator handling one message at a time, every input and
   every failure of its collaborators enumerated.  Overlapping handlers of
   one user are explored in SpecLock. *)

Init ==
    /\ InitCommon
    /\ store \in [Users -> InitRows]
    /\ unlimited \in [Users -> BOOLEAN]
    /\ turn = [t \in {1} |-> IdleTurn]
    /\ enabled \in FirstOnly

Next ==
    \/ \E u \in Users : StartChat(u)
    \/ \E u \in Users : stop_persona_chat(u)
    \/ \E u \in Users : deactivate_persona_chat(u)
    \/ \E t \in DOMAIN turn, u \in Users, blank, dberr, premErr \in BOOLEAN :
          Arrive(t, u, blank, dberr, premErr)
    \/ \E t \in DOMAIN turn : Return(t)
    \/ \E t \in DOMAIN turn : ThreadBegin(t)
    \/ \E t \in DOMAIN turn, m \in Models : \E o \in Outcomes(m) : Invoke(t, o)
    \/ \E t \in DOMAIN turn, premErr, dbErr, saveErr, refundErr \in BOOLEAN :
          Settle(t, premErr, dbErr, saveErr, refundErr)
    \/ \E t \in DOMAIN turn, ok, refundErr \in BOOLEAN : Deliver(t, ok, refundErr)
    \/ \E t \in DOMAIN turn, ok \in BOOLEAN : Notice(t, ok)
    \/ \E u \in Users : Credit(u)
    \/ \E u \in Users : SetUnlimited(u)

Spec == Init /\ [][Next]_vars

----------------------------------------------------------------------------
(* SpecDebit: one handler of a metered user whose balance an administrator
   can set to 0 at any moment, with a ledger and a context store that can
   raise after the dispatch. *)

InitDebit ==
    /\ InitCommon
    /\ store \in [Users -> InitRows]
    /\ unlimited = [u \in Users |-> FALSE]
    /\ turn = [t \in {1} |-> IdleTurn]
    /\ enabled \in FirstOnly

NextDebit ==
    \/ \E u \in Users : StartChat(u)
    \/ \E t \in DOMAIN turn, u \in Users : Arrive(t, u, FALSE, FALSE, FALSE)
    \/ \E t \in DOMAIN turn : Return(t)
    \/ \E t \in DOMAIN turn : ThreadBegin(t)
    \/ \E t \in DOMAIN turn, m \in Models : \E o \in Outcomes(m) : Invoke(t, o)
    \/ \E t \in DOMAIN turn, dbErr, saveErr \in BOOLEAN :
          Settle(t, FALSE, dbErr, saveErr, FALSE)
    \/ \E t \in DOMAIN turn, ok \in BOOLEAN : Deliver(t, ok, FALSE)
    \/ \E t \in DOMAIN turn, ok \in BOOLEAN : Notice(t, ok)
    \/ \E u \in Users : set_balance(u, 0)

SpecDebit == InitDebit /\ [][NextDebit]_vars

----------------------------------------------------------------------------
(* SpecLock: several handlers of one user side by side, with collaborators
   that do not fail. *)

InitLock ==
    /\ InitCommon
    /\ store \in [Users -> {IntRow(1), IntRow(2)}]
    /\ unlimited \in [Users -> BOOLEAN]
    /\ turn = [t \in Turns |-> IdleTurn]
    /\ enabled \in FirstOnly

LockOutcomes(m) == {StrOutcome(<<m>>), StrOutcome(<<Glyph, m>>)}

NextLock ==
    \/ \E u \in Users : StartChat(u)
    \/ \E u \in Users : stop_persona_chat(u)
    \/ \E t \in DOMAIN turn, u \in Users : Arrive(t, u, FALSE, FALSE, FALSE)
    \/ \E t \in DOMAIN turn : Return(t)
    \/ \E t \in DOMAIN turn : ThreadBegin(t)
    \/ \E t \in DOMAIN turn, m \in Models : \E o \in LockOutcomes(m) : Invoke(t, o)
    \/ \E t \in DOMAIN turn : Settle(t, FALSE, FALSE, FALSE, FALSE)
    \/ \E t \in DOMAIN turn : Deliver(t, TRUE, FALSE)

SpecLock == InitLock /\ [][NextLock]_vars

----------------------------------------------------------------------------
(* SpecRouter: the router on its own, one call at a time, with every
   registry and every provider behaviour, and with time passing. *)

\* model_router.py:335-354: a caller enters send_chat_completion
Call(t) ==
    /\ turn[t].pc = "idle"
    /\ turn' = [turn EXCEPT ![t] = [IdleTurn EXCEPT !.pc = "thread"]]
    /\ UNCHANGED <<store, unlimited, active, marker, sent, msgs, credits, proc, ops>>
    /\ UNCHANGED routerVars

\* The caller takes the returned string and goes away
CallReturn(t) ==
    /\ turn[t].pc = "returned"
    /\ turn' = [turn EXCEPT ![t] = IdleTurn]
    /\ UNCHANGED <<store, unlimited, active, marker, sent, msgs, credits, proc, ops>>
    /\ UNCHANGED routerVars

\* time.time() moves on
Tick ==
    /\ now < StartTime + MaxTicks * cleanup_interval
    /\ now' = now + cleanup_interval
    /\ UNCHANGED <<store, unlimited, active, marker, sent, turn, msgs, credits, proc, ops,
                   health, enabled, priority, last_cleanup>>

InitRouter ==
    /\ InitCommon
    /\ store = [u \in Users |-> IntRow(0)]
    /\ unlimited = [u \in Users |-> FALSE]
    /\ turn = [t \in {1} |-> IdleTurn]
    /\ enabled \in [Models -> BOOLEAN]

NextRouter ==
    \/ \E t \in DOMAIN turn : Call(t)
    \/ \E t \in DOMAIN turn : ThreadBegin(t)
    \/ \E t \in DOMAIN turn, m \in Models : \E o \in Outcomes(m) : Invoke(t, o)
    \/ \E t \in DOMAIN turn : CallReturn(t)
    \/ Tick

SpecRouter == InitRouter /\ [][NextRouter]_vars

----------------------------------------------------------------------------
(* SpecHeal: the router of a two-provider registry followed past the
   recovery window, the clock read at a finer grain than the sweep period. *)

\* The clock is read every TickStep seconds: less than a sweep period, so
\* that a call can fall between two sweeps
TickStep == 250

\* The clock is followed for the recovery window and MaxTicks steps beyond it
Horizon == StartTime + RECOVERY_WINDOW + MaxTicks * TickStep

\* time.time() moves on by one step
Advance ==
    /\ now + TickStep <= Horizon
    /\ now' = now + TickStep
    /\ UNCHANGED <<store, unlimited, active, marker, sent, turn, msgs, credits, proc, ops,
                   health, enabled, priority, last_cleanup>>

\* The registry with its first two models enabled
FirstTwo == [m \in Models |-> RegIndex(m) <= 2]

InitHeal ==
    /\ InitCommon
    /\ store = [u \in Users |-> IntRow(0)]
    /\ unlimited = [u \in Users |-> FALSE]
    /\ turn = [t \in {1} |-> IdleTurn]
    /\ enabled = FirstTwo

NextHeal ==
    \/ \E t \in DOMAIN turn : Call(t)
    \/ \E t \in DOMAIN turn : ThreadBegin(t)
    \/ \E t \in DOMAIN turn, m \in Models : \E o \in Outcomes(m) : Invoke(t, o)
    \/ \E t \in DOMAIN turn : CallReturn(t)
    \/ Advance

SpecHeal == InitHeal /\ [][NextHeal]_vars

----------------------------------------------------------------------------
(* SpecSelect: the router with the shipped priorities or with every provider
   registered at the same priority (register_model takes any integer; the
   module's own example registers a further model with priority=50), so that
   equal scores occur, followed past the recovery window. *)

SelectRegistries == {[m \in Models |-> Priority(m)], [m \in Models |-> 50]}

\* The first two registered models enabled, or the second one only
SelectEnabled == {[m \in Models |-> RegIndex(m) <= 2], [m \in Models |-> RegIndex(m) = 2]}

InitSelect ==
    /\ active = [u \in Users |-> FALSE]
    /\ marker = {}
    /\ sent = [u \in Users |-> "none"]
    /\ health = [m \in Models |-> InitStatus]
    /\ priority \in SelectRegistries
    /\ now = StartTime
    /\ last_cleanup = StartTime
    /\ msgs = 0
    /\ credits = 0
    /\ proc = [p \in Procs |-> IdleProc]
    /\ ops = 0
    /\ store = [u \in Users |-> IntRow(0)]
    /\ unlimited = [u \in Users |-> FALSE]
    /\ turn = [t \in {1} |-> IdleTurn]
    /\ enabled \in SelectEnabled

NextSelect ==
    \/ \E t \in DOMAIN turn : Call(t)
    \/ \E t \in DOMAIN turn : ThreadBegin(t)
    \/ \E t \in DOMAIN turn, m \in Models : \E o \in Outcomes(m) : Invoke(t, o)
    \/ \E t \in DOMAIN turn : CallReturn(t)
    \/ Advance

SpecSelect == InitSelect /\ [][NextSelect]_vars

----------------------------------------------------------------------------
(* SpecShared: the one router of the process used by several dispatch calls
   at once, each in its own worker thread (handlers_chat.py:80), followed
   past the recovery window. *)

\* Two worker threads inside send_chat_completion at once
Callers == {1, 2}

\* time.time() moves on by just more than the recovery window
Leap ==
    /\ now < StartTime + MaxTicks * (RECOVERY_WINDOW + 1)
    /\ now' = now + RECOVERY_WINDOW + 1
    /\ UNCHANGED <<store, unlimited, active, marker, sent, turn, msgs, credits, proc, ops,
                   health, enabled, priority, last_cleanup>>

InitShared ==
    /\ InitCommon
    /\ store = [u \in Users |-> IntRow(0)]
    /\ unlimited = [u \in Users |-> FALSE]
    /\ turn = [t \in Callers |-> IdleTurn]
    /\ enabled = FirstTwo

NextShared ==
    \/ \E t \in DOMAIN turn : Call(t)
    \/ \E t \in DOMAIN turn : ThreadBegin(t)
    \/ \E t \in DOMAIN turn, m \in Models : \E o \in LockOutcomes(m) : Invoke(t, o)
    \/ \E t \in DOMAIN turn : CallReturn(t)
    \/ Leap

SpecShared == InitShared /\ [][NextShared]_vars

----------------------------------------------------------------------------
(* SpecLedger: clients of SMS/tokens.py running side by side on a storage
   that works (its failures are explored in SpecGet).  Every call that reads
   before it writes does so in two steps: the SELECT runs outside a
   transaction, so other clients' statements can fall in between. *)

Amounts == (0 - MaxAmount)..MaxAmount
LedgerOps == {"get", "set", "add", "consume"}

\* A client enters one of the four operations
\* tokens.py:91-92 (set), 116-117 (add of 0), 165-176 (consume)
LCall(p, op, u, amount, premErr) ==
    /\ proc[p].pc = "idle"
    /\ ops < MaxOps
    /\ ops' = ops + 1
    /\ LET r == [IdleProc EXCEPT !.op = op, !.user = u, !.amount = amount]
       IN  CASE op = "set" ->
                  proc' = [proc EXCEPT ![p] =
                             [r EXCEPT !.pc = "write", !.new_balance = ClampAmount(amount)]]
             [] op = "add" /\ amount = 0 ->
                  proc' = [proc EXCEPT ![p] = [r EXCEPT !.pc = "read", !.op = "get"]]
             [] op = "consume" /\ amount <= 0 ->
                  proc' = [proc EXCEPT ![p] = [r EXCEPT !.pc = "done", !.ok = TRUE]]
             [] op = "consume" /\ amount > 0 /\ unlimited[u] /\ ~premErr ->
                  proc' = [proc EXCEPT ![p] = [r EXCEPT !.pc = "done", !.ok = TRUE]]
             [] OTHER ->
                  proc' = [proc EXCEPT ![p] = [r EXCEPT !.pc = "read"]]
    /\ UNCHANGED <<store, unlimited, active, marker, sent, turn, msgs, credits>>
    /\ UNCHANGED routerVars

\* Storage errors an attempt of get_token_balance can meet: none, the
\* OperationalError "database is locked", or anything else
DbErrs == {"none", "locked", "other"}

\* A retry on any error
RetryGetOnAnyError(e, attempt) == attempt < max_retries - 1

\* tokens.py:73: the attempt is repeated
RetryGet(e, attempt) == e = "locked" /\ attempt < max_retries - 1

\* tokens.py:72-86: what get_token_balance does with a failed attempt
GetFailed(r, e) ==
    IF RetryGet(e, r.attempt)
    THEN [r EXCEPT !.pc = "read", !.attempt = r.attempt + 1, !.err = e,
                   !.read = FALSE]
    ELSE [r EXCEPT !.pc = "done", !.ret = 0, !.err = e, !.failed = TRUE]

\* The SELECT: tokens.py:32-48 (get), 124-141 (add), 183-204 (consume).
\* e = what the storage does to this attempt of get_token_balance
LRead(p, e) ==
    /\ proc[p].pc = "read"
    /\ proc[p].op = "get" \/ e = "none"
    /\ LET r == proc[p]
           row == store[r.user]
           current == CurrentOf(row)
       IN  CASE r.op = "get" /\ e # "none" ->
                  proc' = [proc EXCEPT ![p] = GetFailed(r, e)]
             [] r.op = "get" /\ e = "none" /\ row.kind # "absent" ->
                  proc' = [proc EXCEPT ![p] =
                             [r EXCEPT !.pc = "done", !.ret = BalanceOfRow(row)]]
             [] r.op = "get" /\ e = "none" /\ row.kind = "absent" ->
                  proc' = [proc EXCEPT ![p] = [r EXCEPT !.pc = "insert", !.read = TRUE]]
             [] r.op = "add" ->
                  proc' = [proc EXCEPT ![p] =
                             [r EXCEPT !.pc = "write", !.read = TRUE,
                                       !.current = current,
                                       !.new_balance = AddNewBalance(current, r.amount)]]
             [] r.op = "consume" /\ ConsumeRefused(current, r.amount) ->
                  proc' = [proc EXCEPT ![p] =
                             [r EXCEPT !.pc = "done", !.ok = FALSE, !.read = TRUE,
                                       !.current = current]]
             [] OTHER ->
                  proc' = [proc EXCEPT ![p] =
                             [r EXCEPT !.pc = "write", !.read = TRUE,
                                       !.current = current,
                                       !.new_balance =
                                           ConsumeNewBalance(current, r.amount)]]
    /\ UNCHANGED <<store, unlimited, active, marker, sent, turn, msgs, credits, ops>>
    /\ UNCHANGED routerVars

\* The upsert: tokens.py:98-111 (set), 144-157 (add), 207-220 (consume)
LWrite(p) ==
    /\ proc[p].pc = "write"
    /\ store' = [store EXCEPT ![proc[p].user] = IntRow(proc[p].new_balance)]
    /\ proc' = [proc EXCEPT ![p] = [@ EXCEPT !.pc = "done", !.wrote = TRUE, !.ok = TRUE]]
    /\ UNCHANGED <<unlimited, active, marker, sent, turn, msgs, credits, ops>>
    /\ UNCHANGED routerVars

\* tokens.py:51-70: insert-if-absent, then the second SELECT; e as in LRead
LInsert(p, e) ==
    /\ proc[p].pc = "insert"
    /\ LET row == InsertIfAbsent(store[proc[p].user])
       IN  IF e # "none"
           THEN /\ proc' = [proc EXCEPT ![p] = GetFailed(proc[p], e)]
                /\ UNCHANGED store
           ELSE /\ store' = [store EXCEPT ![proc[p].user] = row]
                /\ proc' = [proc EXCEPT ![p] =
                         [@ EXCEPT !.pc = "done",
                                   !.wrote = (store[proc[p].user].kind = "absent"),
                                   !.ret = IF row.kind = "int" THEN row.tokens
                                           ELSE DEFAULT_START_TOKENS]]
    /\ UNCHANGED <<unlimited, active, marker, sent, turn, msgs, credits, ops>>
    /\ UNCHANGED routerVars

\* The call returns to its caller
LReturn(p) ==
    /\ proc[p].pc = "done"
    /\ proc' = [proc EXCEPT ![p] = IdleProc]
    /\ UNCHANGED <<store, unlimited, active, marker, sent, turn, msgs, credits, ops>>
    /\ UNCHANGED routerVars

InitLedger ==
    /\ InitCommon
    /\ store \in [Users -> InitRows]
    /\ unlimited \in [Users -> BOOLEAN]
    /\ turn = [t \in {1} |-> IdleTurn]
    /\ enabled = [m \in Models |-> TRUE]

NextLedger ==
    \/ \E p \in Procs, op \in LedgerOps, u \in Users, amount \in Amounts,
          premErr \in BOOLEAN : LCall(p, op, u, amount, premErr)
    \/ \E p \in Procs : LRead(p, "none")
    \/ \E p \in Procs : LWrite(p)
    \/ \E p \in Procs : LInsert(p, "none")
    \/ \E p \in Procs : LReturn(p)

SpecLedger == InitLedger /\ [][NextLedger]_vars

----------------------------------------------------------------------------
(* SpecGet: clients of get_token_balance side by side, with a storage that
   can refuse any attempt, under contention or for good. *)

NextGet ==
    \/ \E p \in Procs, u \in Users : LCall(p, "get", u, 0, FALSE)
    \/ \E p \in Procs, e \in DbErrs : LRead(p, e)
    \/ \E p \in Procs, e \in DbErrs : LInsert(p, e)
    \/ \E p \in Procs : LReturn(p)

SpecGet == InitLedger /\ [][NextGet]_vars

----------------------------------------------------------------------------
(* Properties of the orchestrator, checked under Spec *)

C2NoDebitOnSentinel ==
    [][\A t \in DOMAIN turn :
         (turn[t].pc = "returned" /\ turn[t].routed = "sentinel"
            /\ turn'[t].pc # "returned")
         => store' = store]_vars

\* C3: a handler is past admission only for an unlimited user or a balance of
\* at least 1; the step that refuses a message refuses a metered user whose
\* balance is below 1 and changes neither marker nor balance nor any
\* provider's state, and the refused handler does nothing more than return.
C3AdmissionGate ==
    /\ [](\A t \in DOMAIN turn :
            InFlight(t) => (turn[t].unl \/ turn[t].bal >= 1))
    /\ [][\A t \in DOMAIN turn :
            (turn[t].pc # "denied" /\ turn'[t].pc = "denied")
            => /\ ~turn'[t].unl /\ turn'[t].bal < 1
               /\ UNCHANGED <<store, marker, routerVars>>]_vars
    /\ [][\A t \in DOMAIN turn :
            (turn[t].pc = "denied" /\ turn'[t] # turn[t])
            => /\ turn'[t].pc = "idle"
               /\ UNCHANGED <<store, marker, routerVars>>]_vars

\* A metered user with a stored balance of 0 has been refused
C3Witness ==
    \E t \in DOMAIN turn :
        /\ turn[t].pc = "denied" /\ ~turn[t].unl /\ turn[t].bal = 0
        /\ store[turn[t].user] = IntRow(0)
        /\ turn[t].user \notin marker

\* C6: a marker exists only while a turn of its user is under way, so every
\* way a turn ends (reply sent, error notice sent or not, refund raised) has
\* removed the marker.
C6MarkerOnlyDuringTurn ==
    \A u \in marker : \E t \in DOMAIN turn : InFlight(t) /\ turn[t].user = u

\* A turn has ended through the except block (the error notice is the last
\* thing sent) and the user has no marker
C6Witness ==
    \E u \in Users :
        /\ sent[u] = "error" /\ u \notin marker /\ msgs >= 1
        /\ \A t \in DOMAIN turn : turn[t].pc = "idle"

----------------------------------------------------------------------------
(* Properties of the admission lock, checked under SpecLock *)

\* C4: a message that arrives while its user has a marker is dropped, and
\* neither that step nor the dropped handler's return changes the balance,
\* the marker, what was sent, or any provider's state.
C4DroppedWhileMarked ==
    /\ [][\A t \in DOMAIN turn :
            (turn[t].pc = "idle" /\ turn'[t].pc # "idle" /\ turn'[t].user \in marker)
            => /\ turn'[t].pc = "dropped"
               /\ UNCHANGED <<store, marker, sent, routerVars>>]_vars
    /\ [][\A t \in DOMAIN turn :
            (turn[t].pc = "dropped" /\ turn'[t] # turn[t])
            => /\ turn'[t] = IdleTurn
               /\ UNCHANGED <<store, marker, sent, routerVars>>]_vars

\* A second message has been dropped while the first one's dispatch runs
C4Witness ==
    \E t1, t2 \in DOMAIN turn :
        /\ turn[t1].pc \in DispatchPcs /\ turn[t2].pc = "dropped"
        /\ turn[t1].user = turn[t2].user /\ turn[t1].user \in marker
        /\ ~turn[t1].cleared

----------------------------------------------------------------------------
(* Properties of the router, checked under SpecRouter *)

\* C7: whatever the providers do on any attempt, send_chat_completion comes
\* back with a provider's text that passes its success test or with one of
\* its two fixed sentinels; it never leaves through an exception.
C7DispatchNeverRaises ==
    \A t \in DOMAIN turn :
        turn[t].pc = "returned" =>
            \/ /\ turn[t].routed = "success"
               /\ turn[t].raw # <<>> /\ Head(turn[t].raw) \in Models
            \/ /\ turn[t].routed = "sentinel"
               /\ turn[t].raw \in {NoModelsSentinel, AllDownSentinel}

\* Every candidate has used up its attempts and the call has returned the
\* "all providers unavailable" sentinel
C7Witness ==
    \E t \in DOMAIN turn :
        /\ turn[t].pc = "returned" /\ turn[t].routed = "sentinel"
        /\ turn[t].raw = AllDownSentinel
        /\ turn[t].tried = {m \in Models : enabled[m]}
        /\ Cardinality(turn[t].tried) >= 2

P1 == AllModels[1]
P2 == AllModels[2]
OnlyP1P2Enabled == \A m \in Models : enabled[m] <=> m \in {P1, P2}

\* C8: with exactly P1 and P2 enabled, once P1 has used up its attempts in a
\* call, the same call goes on with P2: while it runs, P2 is the candidate at
\* hand or has been through as well, and when it returns it returns P2's text
\* unless P2 used up its attempts too.
C8FallbackToSecond ==
    \A t \in DOMAIN turn :
        (OnlyP1P2Enabled /\ P1 \in turn[t].tried) =>
            /\ turn[t].pc = "calling" =>
                   (turn[t].cands[turn[t].idx] = P2 \/ P2 \in turn[t].tried)
            /\ turn[t].pc = "returned" =>
                   \/ /\ turn[t].routed = "success" /\ P2 \notin turn[t].tried
                      /\ turn[t].raw # <<>> /\ Head(turn[t].raw) = P2
                   \/ /\ turn[t].routed = "sentinel" /\ P2 \in turn[t].tried
                      /\ turn[t].raw = AllDownSentinel

\* P1 came first, failed all its attempts, and the call returned P2's text
C8Witness ==
    \E t \in DOMAIN turn :
        /\ OnlyP1P2Enabled
        /\ turn[t].pc = "returned" /\ turn[t].routed = "success"
        /\ turn[t].tried = {P1} /\ turn[t].raw = <<P2>>
        /\ health[P1].consecutive_failures = 1
        /\ health[P2].consecutive_failures = 0

----------------------------------------------------------------------------
(* Properties of the ledger, checked under SpecLedger *)

\* C9: every balance the store holds as a number is an integer >= 0, and
\* every row a ledger call has changed holds such a number.
C9StoredBalancesNonNegative ==
    /\ \A u \in Users : store[u].kind = "int" => store[u].tokens \in Nat
    /\ \A p \in Procs :
          (proc[p].pc = "done" /\ proc[p].wrote) => store[proc[p].user].kind = "int"

\* set_token_balance was called with a negative amount and has stored 0
C9Witness ==
    \E p \in Procs :
        /\ proc[p].op = "set" /\ proc[p].amount < 0
        /\ proc[p].pc = "done" /\ proc[p].wrote
        /\ store[proc[p].user] = IntRow(0)

\* C10: consume_tokens for a metered user returns True without reading or
\* writing when amount <= 0; otherwise it reads the current balance (the
\* default for an absent row, 0 for a corrupt one), returns False without
\* writing when that is below amount, and else writes exactly current - amount
\* and returns True; no other step of the call changes the store.
C10ConsumeContract ==
    /\ [](\A p \in Procs :
            (proc[p].op = "consume" /\ proc[p].pc = "done"
               /\ ~unlimited[proc[p].user]) =>
                IF proc[p].amount <= 0
                THEN proc[p].ok /\ ~proc[p].wrote /\ ~proc[p].read
                ELSE /\ proc[p].read
                     /\ IF proc[p].current < proc[p].amount
                        THEN ~proc[p].ok /\ ~proc[p].wrote
                        ELSE proc[p].ok /\ proc[p].wrote)
    /\ [][\A p \in Procs :
            (proc'[p].op = "consume" /\ proc'[p].read /\ ~proc[p].read) =>
                proc'[p].current =
                    (CASE store[proc[p].user].kind = "absent" -> DEFAULT_START_TOKENS
                       [] store[proc[p].user].kind = "corrupt" -> 0
                       [] OTHER -> store[proc[p].user].tokens)]_vars
    /\ [][\A p \in Procs :
            (proc[p].op = "consume" /\ proc'[p] # proc[p]) =>
                IF proc[p].pc = "write"
                THEN store' = [store EXCEPT ![proc[p].user] =
                                  IntRow(proc[p].current - proc[p].amount)]
                ELSE store' = store]_vars

\* A metered user's balance of 1 has been consumed down to 0
C10Witness ==
    \E p \in Procs :
        /\ proc[p].op = "consume" /\ proc[p].pc = "done"
        /\ ~unlimited[proc[p].user]
        /\ proc[p].amount = 1 /\ proc[p].current = 1
        /\ proc[p].ok /\ proc[p].wrote
        /\ store[proc[p].user] = IntRow(0)

\* C11: a call of get_token_balance changes the store only by creating the
\* missing record with the default; it never touches an existing record; and
\* what it returns is the value the store holds when it returns.  So callers
\* racing on an unseen user create one record and all get the default, and
\* later calls get the persisted value.
C11LazyCreate ==
    [][\A p \in Procs :
         (proc[p].op = "get" /\ proc'[p] # proc[p]) =>
            LET u == proc[p].user
            IN  /\ store[u].kind # "absent" => store' = store
                /\ store' # store =>
                       store' = [store EXCEPT ![u] = IntRow(DEFAULT_START_TOKENS)]
                /\ proc'[p].pc = "done" =>
                       /\ store'[u].kind # "absent"
                       /\ proc'[p].ret = IF store'[u].kind = "int"
                                         THEN store'[u].tokens ELSE 0]_vars

\* Two calls both found no record; one of them created it, and both have
\* returned the default
C11Witness ==
    \E p, q \in Procs :
        /\ p # q /\ proc[p].user = proc[q].user
        /\ proc[p].op = "get" /\ proc[q].op = "get"
        /\ proc[p].pc = "done" /\ proc[q].pc = "done"
        /\ proc[p].read /\ proc[q].read
        /\ proc[p].wrote /\ ~proc[q].wrote
        /\ proc[p].ret = DEFAULT_START_TOKENS /\ proc[q].ret = DEFAULT_START_TOKENS
        /\ store[proc[p].user] = IntRow(DEFAULT_START_TOKENS)

----------------------------------------------------------------------------
(* Properties of get_token_balance on a failing storage, checked under
   SpecGet *)

\* C14: get_token_balance makes at most max_retries attempts; it starts
\* another attempt only after "database is locked"; and when it gives up
\* (after any other error, or after the last attempt was locked out) it
\* returns 0 to its caller.
C14FailSoftBounded ==
    /\ [](\A p \in Procs : proc[p].attempt <= max_retries - 1)
    /\ [][\A p \in Procs :
            proc'[p].attempt > proc[p].attempt =>
                /\ proc'[p].attempt = proc[p].attempt + 1
                /\ proc'[p].err = "locked" /\ proc'[p].pc = "read"]_vars
    /\ [](\A p \in Procs :
            (proc[p].pc = "done" /\ proc[p].failed) =>
                /\ proc[p].ret = 0
                /\ \/ proc[p].err = "other"
                   \/ proc[p].err = "locked" /\ proc[p].attempt = max_retries - 1)
    /\ [][\A p \in Procs :
            (proc[p].pc \in {"read", "insert"} /\ proc'[p] # proc[p]) =>
                proc'[p].pc \in {"read", "insert", "done"}]_vars

\* Three attempts in a row were locked out and the call has returned 0,
\* although the store holds a balance of 1
C14Witness ==
    \E p \in Procs :
        /\ proc[p].op = "get" /\ proc[p].pc = "done" /\ proc[p].failed
        /\ proc[p].err = "locked" /\ proc[p].attempt = max_retries - 1
        /\ proc[p].ret = 0 /\ store[proc[p].user] = IntRow(1)

----------------------------------------------------------------------------
(* Further properties of the orchestrator, checked under Spec *)

\* C12: the handler's is_unlimited is what is_premium_unlimited returns, and
\* False when it raises; a handler whose flag is True is admitted whatever
\* the balance, and no step of its turn changes the user's balance (admission
\* at most creates the missing record with the default); a handler whose
\* check raised goes on as a metered one: refused below a balance of 1,
\* admitted otherwise.
C12EntitlementFlag ==
    /\ [][\A t \in DOMAIN turn :
            (turn[t].pc = "idle" /\ turn'[t].pc \in {"thread", "denied"}) =>
                LET u == turn'[t].user
                IN  /\ turn'[t].unl = (IF turn'[t].premraised THEN FALSE
                                        ELSE unlimited[u])
                    /\ turn'[t].unl =>
                          /\ turn'[t].pc = "thread"
                          /\ \/ store' = store
                             \/ /\ store[u].kind = "absent"
                                /\ store' = [store EXCEPT ![u] =
                                               IntRow(DEFAULT_START_TOKENS)]
                    /\ turn'[t].premraised =>
                          /\ turn'[t].pc = "denied" <=> turn'[t].bal < 1
                          /\ turn'[t].pc = "thread" <=> turn'[t].bal >= 1]_vars
    /\ [][\A t \in DOMAIN turn :
            (InFlight(t) /\ turn[t].unl /\ turn'[t].pc # turn[t].pc)
            => store' = store]_vars

\* An unlimited user with a balance of 0 was admitted and the reply is
\* about to be sent, nothing debited
C12Witness ==
    \E t \in DOMAIN turn :
        /\ turn[t].pc = "send" /\ turn[t].unl /\ ~turn[t].premraised
        /\ turn[t].routed = "success" /\ ~is_error(turn[t].resp)
        /\ turn[t].bal = 0 /\ store[turn[t].user] = IntRow(0)
        /\ ~turn[t].consumed

----------------------------------------------------------------------------
(* Provider health over time, checked under SpecHeal *)

\* The dispatch call of handler t begins: the sweep and the candidate list of
\* model_router.py:164-170 are done in this step
DispatchBegins(t) ==
    turn[t].pc = "thread" /\ ~turn[t].blank /\ turn'[t].pc # "thread"

\* A provider out of service whose last failure is older than the recovery
\* window
RecoveryDue(m) ==
    ~health[m].is_working /\ now - health[m].last_failure_time > RECOVERY_WINDOW

\* C13 as stated: every provider marked is_working = false whose last failure
\* is more than the recovery window back is seen by the next dispatch call
\* with is_working = true and consecutive_failures = 0.
C13HealedAtNextCall ==
    [][\A t \in DOMAIN turn : DispatchBegins(t) =>
          \A m \in Models : RecoveryDue(m) =>
              health'[m].is_working /\ health'[m].consecutive_failures = 0]_vars

\* C13, amended: a dispatch call that begins at least the sweep interval
\* after the previous sweep sees every provider whose recovery is due with
\* is_working = true and consecutive_failures = 0, its timestamps kept,
\* and leaves the others as they were; a call that begins sooner changes no
\* provider's health, whatever is due.
C13HealedAtNextSweep ==
    [][\A t \in DOMAIN turn : DispatchBegins(t) =>
          IF now - last_cleanup >= cleanup_interval
          THEN /\ last_cleanup' = now
               /\ \A m \in Models :
                    IF RecoveryDue(m)
                    THEN health'[m] = [health[m] EXCEPT !.is_working = TRUE,
                                                        !.consecutive_failures = 0]
                    ELSE health'[m] = health[m]
          ELSE health' = health /\ last_cleanup' = last_cleanup]_vars

\* A call has just swept and a provider is back in service by amnesty alone:
\* no success since its last failure
C13Witness ==
    /\ last_cleanup = now
    /\ \E t \in DOMAIN turn : turn[t].pc = "calling" /\ turn[t].attempt = 0
                              /\ turn[t].idx = 1
    /\ \E m \in Models :
          /\ health[m].is_working /\ health[m].consecutive_failures = 0
          /\ health[m].last_failure_time > health[m].last_success_time
          /\ now - health[m].last_failure_time > RECOVERY_WINDOW

----------------------------------------------------------------------------
(* The orchestrator after the dispatch, checked under Spec *)

\* The handler of t leaves the point where the worker thread has returned:
\* classification, debit and saving of the context happen in this step
Settles(t) == turn[t].pc = "returned" /\ turn'[t].pc # "returned"

C16DebitFailureNeverFailsTurn ==
    [][\A t \in DOMAIN turn :
         (Settles(t) /\ turn'[t].debit \in {"refused", "raised"}
            /\ turn'[t].pc # "idle")
         => turn'[t].pc \in {"send"} /\ store' = store]_vars

\* C16, amended: consume_tokens returns False exactly when the balance it
\* reads is below 1; the handler then leaves the balance as it was and goes
\* on, and the reply it sends is the provider's response.  When consume_tokens
\* raises, the balance is left as it was too, but the turn fails: the handler
\* goes to the except block, and what the turn sends is the error notice, or
\* nothing, never the response.
C16DebitFailure ==
    /\ [][\A t \in DOMAIN turn : Settles(t) =>
            LET row == store[turn[t].user]
                current == IF row.kind = "absent" THEN DEFAULT_START_TOKENS
                           ELSE IF row.kind = "corrupt" THEN 0 ELSE row.tokens
            IN  /\ turn'[t].debit = "refused" =>
                      /\ current < 1 /\ store' = store /\ ~turn'[t].consumed
                      /\ turn'[t].pc \in {"send", "notice"}
                /\ (turn'[t].debit = "done" /\ ~turn'[t].unlc) => current >= 1
                /\ turn'[t].debit = "raised" =>
                      /\ store' = store /\ ~turn'[t].consumed
                      /\ turn'[t].pc = "notice"]_vars
    /\ [][\A t \in DOMAIN turn :
            (turn[t].pc = "send" /\ turn[t].debit = "refused"
               /\ turn'[t].pc = "idle")
            => store' = store /\ sent'[turn[t].user] = "reply"]_vars
    /\ [][\A t \in DOMAIN turn :
            (InFlight(t) /\ turn[t].debit = "raised"
               /\ turn'[t].pc # turn[t].pc)
            => /\ turn[t].pc = "notice" /\ turn'[t].pc = "idle"
               /\ store' = store
               /\ sent' = sent \/ sent'[turn[t].user] = "error"]_vars

\* consume_tokens has raised after a provider's usable text: the handler is
\* in the except block with the balance as it was at admission
C16Witness ==
    \E t \in DOMAIN turn :
        /\ turn[t].pc = "notice" /\ turn[t].debit = "raised"
        /\ turn[t].routed = "success" /\ ~turn[t].unl /\ ~turn[t].touched
        /\ ~turn[t].consumed
        /\ turn[t].bal >= 1 /\ store[turn[t].user] = IntRow(turn[t].bal)

----------------------------------------------------------------------------
(* Order of the busy check and the balance check, checked under SpecLock *)

\* A message of user u gets a handler t in this step, and u is metered with
\* a stored balance below 1
ArrivesExhausted(t, u) ==
    /\ turn[t].pc = "idle" /\ turn'[t].pc # "idle" /\ turn'[t].user = u
    /\ ~unlimited[u]
    /\ store[u].kind = "int" /\ store[u].tokens < 1

\* C17 as stated: every message of a metered user whose balance is below 1 is
\* refused with the "balance exhausted" notice, also when the user has an
\* admission marker; no lock is taken and the ledger is not changed.
C17NoticeWhateverTheMarker ==
    [][\A t \in DOMAIN turn, u \in Users : ArrivesExhausted(t, u) =>
          /\ turn'[t].pc = "denied"
          /\ store' = store /\ marker' = marker]_vars

\* C17, amended: the busy check comes first.  A message of a metered user
\* whose balance is below 1 is dropped without any notice when the user has
\* an admission marker, and is refused with the notice only when the user
\* has none; in both cases the marker, the ledger and the providers' states
\* stay as they are, and only the refused handler sends the notice.
C17BusyCheckFirst ==
    /\ [][\A t \in DOMAIN turn, u \in Users : ArrivesExhausted(t, u) =>
            /\ IF u \in marker THEN turn'[t].pc = "dropped"
                               ELSE turn'[t].pc = "denied"
            /\ UNCHANGED <<store, marker, sent, routerVars>>]_vars
    /\ [][\A t \in DOMAIN turn :
            (turn[t].pc \in {"denied", "dropped"} /\ turn'[t].pc = "idle")
            => /\ UNCHANGED <<store, marker, routerVars>>
               /\ IF turn[t].pc = "denied"
                  THEN sent'[turn[t].user] = "denied"
                  ELSE sent' = sent]_vars

\* The first message has used the user's last token and its reply is still
\* to be sent; the second message of the same user, whose balance is now 0,
\* has been dropped
C17Witness ==
    \E t1, t2 \in DOMAIN turn :
        /\ turn[t1].pc = "send" /\ turn[t1].consumed
        /\ turn[t2].pc = "dropped" /\ turn[t2].user = turn[t1].user
        /\ turn[t1].user \in marker
        /\ ~unlimited[turn[t1].user]
        /\ store[turn[t1].user] = IntRow(0)

----------------------------------------------------------------------------
(* The consume race, checked under SpecLedger *)

\* Two calls consume_tokens(u, 1) that are the only ledger calls so far, have
\* both finished and have both read the same balance
BothConsumed(p, q) ==
    /\ ops = 2 /\ p # q
    /\ proc[p].user = proc[q].user
    /\ \A c \in {p, q} :
          /\ proc[c].pc = "done" /\ proc[c].op = "consume"
          /\ proc[c].amount = 1 /\ proc[c].read
    /\ proc[p].current = proc[q].current

\* C19: when two concurrent calls consume_tokens(u, 1) have both read the
\* same sufficient balance b, both return True and the stored balance is
\* b - 1: one of the two debits is lost.
C19LostDebit ==
    \A p, q \in Procs :
        (BothConsumed(p, q) /\ proc[p].current >= 1) =>
            /\ proc[p].ok /\ proc[q].ok
            /\ proc[p].wrote /\ proc[q].wrote
            /\ store[proc[p].user] = IntRow(proc[p].current - 1)

\* Two calls have both read the balance 1 and both returned True: two debits
\* were granted on one token, and the stored balance is 0
C19Witness ==
    \E p, q \in Procs :
        /\ BothConsumed(p, q) /\ proc[p].current = 1
        /\ proc[p].ok /\ proc[q].ok
        /\ store[proc[p].user] = IntRow(0)

----------------------------------------------------------------------------
(* Short-circuit on success, checked under SpecRouter *)

\* An attempt of the call of handler t is classified as a success in this
\* step
AttemptSucceeded(t) ==
    /\ turn[t].pc = "calling" /\ turn'[t].pc = "returned"
    /\ turn'[t].routed = "success"

\* C20: in the step in which an attempt is classified as a success the
\* provider at hand, and no other, gets mark_success (working, failure count
\* 0, last success now, last failure as it was), the call returns that
\* attempt's text, and the provider is not among those the call has marked
\* failed; once the call has returned it invokes no provider and changes no
\* provider's state.
C20ShortCircuit ==
    /\ [][\A t \in DOMAIN turn : AttemptSucceeded(t) =>
            LET m == turn[t].cands[turn[t].idx]
            IN  /\ health'[m].is_working
                /\ health'[m].consecutive_failures = 0
                /\ health'[m].last_success_time = now
                /\ health'[m].last_failure_time = health[m].last_failure_time
                /\ \A o \in Models \ {m} : health'[o] = health[o]
                /\ turn'[t].raw # <<>> /\ Head(turn'[t].raw) = m
                /\ turn'[t].tried = turn[t].tried /\ m \notin turn'[t].tried]_vars
    /\ [][\A t \in DOMAIN turn : turn[t].pc = "returned" =>
            /\ turn'[t].pc \in {"returned", "idle"}
            /\ health' = health]_vars

\* A provider that had failed in an earlier call has answered in this one:
\* its count is back at 0, the call has returned its text, and another
\* enabled provider, a candidate behind it, has not been invoked by this call
\* (nothing of it is marked with the present time)
C20Witness ==
    \E t \in DOMAIN turn, m \in Models :
        /\ turn[t].pc = "returned" /\ turn[t].routed = "success"
        /\ turn[t].raw = <<m>> /\ turn[t].tried = {}
        /\ health[m].is_working /\ health[m].consecutive_failures = 0
        /\ health[m].last_success_time = now
        /\ health[m].last_failure_time > 0
        /\ \E o \in Models \ {m} :
              /\ enabled[o]
              /\ health[o].last_success_time < now
              /\ health[o].last_failure_time < now

----------------------------------------------------------------------------
(* Bounded retry, checked under SpecRouter *)

\* The call of handler t invokes a provider's send_function in this step
Invokes(t) == turn[t].pc = "calling" /\ turn'[t] # turn[t]

\* C21: every invocation of a dispatch call is one of at most 3 of the
\* candidate at hand and one of at most 3 x (number of enabled providers) of
\* the call; after it the call has returned, or goes on with the same
\* candidate (only when attempts remain), or goes on with the next candidate
\* of the list (only after the third failed attempt), the one left behind
\* being recorded as exhausted; the list names every provider at most once
\* and the candidate at hand is never one that was exhausted.
C21BoundedRetry ==
    /\ [][\A t \in DOMAIN turn : Invokes(t) =>
            LET r == turn[t]
                n == Cardinality({m \in Models : enabled[m]})
            IN  /\ r.attempt + 1 <= 3
                /\ r.calls + 1 <= 3 * n
                /\ r.cands[r.idx] \notin r.tried
                /\ \/ turn'[t].pc = "returned"
                   \/ /\ turn'[t].pc = "calling" /\ turn'[t].calls = r.calls + 1
                      /\ turn'[t].cands = r.cands
                      /\ \/ /\ turn'[t].idx = r.idx /\ r.attempt < 2
                            /\ turn'[t].attempt = r.attempt + 1
                            /\ turn'[t].tried = r.tried
                         \/ /\ turn'[t].idx = r.idx + 1 /\ r.attempt = 2
                            /\ r.idx + 1 <= Len(r.cands)
                            /\ turn'[t].attempt = 0
                            /\ turn'[t].tried = r.tried \cup {r.cands[r.idx]}]_vars
    /\ \A t \in DOMAIN turn : turn[t].pc = "calling" =>
          /\ \A i, j \in 1..Len(turn[t].cands) :
                i # j => turn[t].cands[i] # turn[t].cands[j]
          /\ Len(turn[t].cands) = Cardinality({m \in Models : enabled[m]})
          /\ turn[t].tried = {turn[t].cands[i] : i \in 1..(turn[t].idx - 1)}

\* Both enabled providers have failed twice each in this call and the last
\* candidate is about to be invoked for the third time: the sixth invocation
C21Witness ==
    \E t \in DOMAIN turn :
        /\ turn[t].pc = "calling" /\ Len(turn[t].cands) = 2
        /\ turn[t].idx = 2 /\ turn[t].attempt = 2 /\ turn[t].calls = 5
        /\ turn[t].tried = {turn[t].cands[1]}

----------------------------------------------------------------------------
(* mark_failure, checked under SpecRouter *)

\* C22: an invocation step changes the failure record of a provider only when
\* it is the third failed attempt on the candidate at hand, which this call
\* had not exhausted before: then that provider's count goes up by exactly 1,
\* its last failure is now, it is out of service exactly if the new count is
\* 3 or more, and no other provider changes; a failed attempt with attempts
\* remaining changes no provider.  A provider goes out of service only in a
\* step that brings its count to exactly 3.
C22MarkFailureOncePerCall ==
    /\ [][\A t \in DOMAIN turn : Invokes(t) =>
            LET r == turn[t]
                m == r.cands[r.idx]
            IN  IF turn'[t].tried # r.tried
                THEN /\ r.attempt = 2 /\ m \notin r.tried
                     /\ turn'[t].tried = r.tried \cup {m}
                     /\ health'[m].consecutive_failures =
                            health[m].consecutive_failures + 1
                     /\ health'[m].last_failure_time = now
                     /\ health'[m].last_success_time = health[m].last_success_time
                     /\ ~health'[m].is_working <=>
                            health'[m].consecutive_failures >= 3
                     /\ \A o \in Models \ {m} : health'[o] = health[o]
                ELSE \/ turn'[t].pc = "returned" /\ turn'[t].routed = "success"
                     \/ /\ health' = health
                        /\ turn'[t].pc = "calling" /\ r.attempt < 2]_vars
    /\ [][\A m \in Models :
            (health[m].is_working /\ ~health'[m].is_working)
            => /\ health[m].consecutive_failures = 2
               /\ health'[m].consecutive_failures = 3]_vars

\* A provider has just failed its third attempt in a third call in a row:
\* three calls, nine failed attempts, a count of 3 and out of service
C22Witness ==
    \E t \in DOMAIN turn, m \in Models :
        /\ turn[t].pc \in {"calling", "returned"} /\ m \in turn[t].tried
        /\ health[m].consecutive_failures = 3 /\ ~health[m].is_working
        /\ health[m].last_failure_time = now

----------------------------------------------------------------------------
(* Candidate selection, checked under SpecSelect *)

\* C23: the list a dispatch call starts with names every enabled provider
\* exactly once and no other, in service or not, in descending order of
\* priority + (1000 if the last success is less than 600 s back)
\* + (500 if in service) - 100 x consecutive failures, computed on the
\* statuses as the call's sweep has left them; of two providers with the same
\* score the one whose last success is more recent comes first.
C23CandidateOrder ==
    [][\A t \in DOMAIN turn :
         (turn[t].pc = "thread" /\ turn'[t].pc = "calling") =>
            LET s == turn'[t].cands
                since(m) == now - health'[m].last_success_time
                score(m) == priority[m]
                            + (IF since(m) < 600 THEN 1000 ELSE 0)
                            + (IF health'[m].is_working THEN 500 ELSE 0)
                            - 100 * health'[m].consecutive_failures
            IN  /\ {s[i] : i \in 1..Len(s)} = {m \in Models : enabled[m]}
                /\ Len(s) = Cardinality({m \in Models : enabled[m]})
                /\ \A i, j \in 1..Len(s) : i < j =>
                      \/ score(s[i]) > score(s[j])
                      \/ score(s[i]) = score(s[j]) /\ since(s[i]) <= since(s[j])]_vars

\* A call starts with the provider of the highest priority in last place,
\* out of service and still a candidate
C23Witness ==
    \E t \in DOMAIN turn :
        /\ turn[t].pc = "calling" /\ turn[t].calls = 0
        /\ Len(turn[t].cands) = 2
        /\ ~health[turn[t].cands[2]].is_working
        /\ priority[turn[t].cands[2]] > priority[turn[t].cands[1]]

\* A call starts with two providers of equal score, the one registered
\* later first because its last success is the more recent
C23TieReached ==
    \E t \in DOMAIN turn :
        /\ turn[t].pc = "calling" /\ turn[t].calls = 0
        /\ Len(turn[t].cands) = 2
        /\ Score(turn[t].cands[1], health[turn[t].cands[1]], now)
             = Score(turn[t].cands[2], health[turn[t].cands[2]], now)
        /\ health[turn[t].cands[1]].last_success_time
             > health[turn[t].cands[2]].last_success_time
        /\ RegIndex(turn[t].cands[1]) > RegIndex(turn[t].cands[2])

----------------------------------------------------------------------------
(* The sweep, checked under SpecHeal *)

\* C24: the time of the last scan moves only when a dispatch call begins 300 s
\* or more after it (after the router's construction, for the first scan),
\* and then to the present time; a call that begins sooner changes no status.
\* A scan sets is_working = true and consecutive_failures = 0, and nothing
\* else, on exactly the providers that are out of service with a last failure
\* more than 600 s back.  No other step brings a provider back into service
\* except its own mark_success.
C24SweepAmnesty ==
    /\ [][last_cleanup' # last_cleanup =>
            /\ last_cleanup' = now /\ now - last_cleanup >= 300
            /\ \E t \in DOMAIN turn : DispatchBegins(t)]_vars
    /\ [][\A t \in DOMAIN turn : DispatchBegins(t) =>
            IF now - last_cleanup < 300
            THEN UNCHANGED <<health, last_cleanup>>
            ELSE /\ last_cleanup' = now
                 /\ \A m \in Models :
                       LET reset == /\ ~health[m].is_working
                                    /\ now - health[m].last_failure_time > 600
                       IN  /\ health'[m].is_working = (health[m].is_working \/ reset)
                           /\ health'[m].consecutive_failures =
                                IF reset THEN 0 ELSE health[m].consecutive_failures
                           /\ health'[m].last_failure_time = health[m].last_failure_time
                           /\ health'[m].last_success_time = health[m].last_success_time]_vars
    /\ [][\A m \in Models :
            (~health[m].is_working /\ health'[m].is_working)
            => \/ health'[m].last_success_time = now
               \/ \E t \in DOMAIN turn : DispatchBegins(t)]_vars

\* A scan has just run: it has brought back one provider, whose last failure
\* is more than 600 s old, and has left another one out of service, whose
\* last failure is more recent
C24Witness ==
    /\ last_cleanup = now
    /\ \E t \in DOMAIN turn : turn[t].pc = "calling" /\ turn[t].calls = 0
    /\ \E m, o \in Models :
          /\ health[m].is_working /\ health[m].consecutive_failures = 0
          /\ health[m].last_failure_time > health[m].last_success_time
          /\ now - health[m].last_failure_time > 600
          /\ ~health[o].is_working /\ health[o].consecutive_failures = 3
          /\ now - health[o].last_failure_time <= 600

----------------------------------------------------------------------------
(* The candidate list of a call, checked under SpecShared *)

\* C25: the candidate order of a dispatch call is fixed when the call starts,
\* as the order computed at that moment.  No step taken while the call runs,
\* by this call, by a call running at the same time or by the clock, changes
\* the list, and each invocation of the call goes to the provider at the
\* call's position in that list: only that provider's status changes, only
\* it joins the providers the call has used up, and a success is its answer.
C25CandidateSnapshot ==
    /\ [][\A t \in DOMAIN turn :
            /\ (turn[t].pc = "thread" /\ turn'[t].pc = "calling")
               => /\ turn'[t].cands = get_available_models(health', enabled, now)
                  /\ turn'[t].idx = 1
            /\ (turn[t].pc = "calling" /\ turn'[t].pc = "calling")
               => /\ turn'[t].cands = turn[t].cands
                  /\ turn'[t].idx \in {turn[t].idx, turn[t].idx + 1}
            /\ (turn[t].pc = "calling" /\ turn'[t] = turn[t])
               => \/ health' = health
                  \/ \E u \in DOMAIN turn : u # t /\ turn'[u] # turn[u]]_vars
    /\ [][\A t \in DOMAIN turn : Invokes(t) =>
            LET m == turn[t].cands[turn[t].idx]
            IN  /\ \A k \in Models \ {m} : health'[k] = health[k]
                /\ turn'[t].tried \subseteq turn[t].tried \cup {m}
                /\ turn'[t].routed = "success" => turn'[t].raw = <<m>>
                /\ turn'[t].idx = turn[t].idx + 1
                   => /\ m \in turn'[t].tried
                      /\ health'[m].last_failure_time = now]_vars

\* A call is at its second candidate while another call is in its attempts,
\* and the order a fresh selection would give now is not the call's own order
C25Witness ==
    \E t, u \in DOMAIN turn :
        /\ t # u
        /\ turn[t].pc = "calling" /\ turn[t].idx = 2
        /\ turn[u].pc = "calling" /\ turn[u].calls > 0
        /\ turn[t].cands # get_available_models(health, enabled, now)
        /\ turn[t].cands # turn[u].cands

\* A call is still in its attempts when a sweep run for another call brings
\* back the provider that the first call had put last
C25AmnestyDuringCall ==
    \E t, u \in DOMAIN turn :
        /\ t # u
        /\ turn[t].pc = "calling" /\ turn[t].calls > 0
        /\ turn[u].pc = "calling" /\ turn[u].calls = 0
        /\ last_cleanup = now
        /\ LET m == turn[t].cands[Len(turn[t].cands)]
           IN  /\ health[m].is_working /\ health[m].consecutive_failures = 0
               /\ health[m].last_failure_time > health[m].last_success_time
               /\ now - health[m].last_failure_time > 600
               /\ turn[u].cands[1] = m

----------------------------------------------------------------------------
(* The debit and the refund of a turn, checked under Spec *)

\* C26: a turn whose message is blank, for which run_chat_turn returns its
\* fixed prompt without any provider call, is settled with the ledger left
\* as it was.
C26NoDebitWithoutProviderCall ==
    [][\A t \in DOMAIN turn :
         (Settles(t) /\ turn[t].blank /\ turn[t].routed = "none")
         => store' = store]_vars

\* C27: a step of a chat turn raises a user's stored balance only as the
\* refund of a debit by which the same turn lowered it by 1: a step other
\* than an external credit that raises a balance raises it by 1, for a turn
\* whose debit was applied to the store while the user was metered.
C27TurnNeverIncreasesBalance ==
    [][credits' = credits =>
         \A u \in Users :
            CurrentOf(store'[u]) > CurrentOf(store[u])
            => /\ CurrentOf(store'[u]) = CurrentOf(store[u]) + 1
               /\ \E t \in DOMAIN turn :
                     /\ turn[t].user = u /\ turn[t].pc = "send"
                     /\ turn'[t].pc # "send"
                     /\ turn[t].debit = "done" /\ ~turn[t].unlc]_vars

----------------------------------------------------------------------------
(* The marker of a turn, checked under SpecLock *)

----------------------------------------------------------------------------
(* The status record of a provider, checked under SpecShared *)

----------------------------------------------------------------------------
(* The sweep and the providers in service, checked under SpecHeal *)

\* C30: the sweep at the beginning of a dispatch call leaves the status of
\* every provider that is in service exactly as it was.  A count of 1 or 2
\* consecutive failures goes back to 0 only at a step in which a call's
\* invocation of that very provider succeeds, and the passage of time
\* changes no status.
C30SweepSparesWorking ==
    /\ [][\A t \in DOMAIN turn : DispatchBegins(t) =>
            \A m \in Models :
               health[m].is_working => health'[m] = health[m]]_vars
    /\ [][\A m \in Models :
            (/\ health[m].is_working
             /\ health[m].consecutive_failures \in {1, 2}
             /\ health'[m].consecutive_failures # health[m].consecutive_failures)
            => \E t \in DOMAIN turn :
                  /\ Invokes(t) /\ turn[t].cands[turn[t].idx] = m
                  /\ \/ /\ turn'[t].routed = "success"
                        /\ health'[m].consecutive_failures = 0
                        /\ health'[m].last_success_time = now
                     \/ /\ turn'[t].routed # "success"
                        /\ health'[m].consecutive_failures
                             = health[m].consecutive_failures + 1]_vars
    /\ [][now' # now => health' = health]_vars

\* A sweep has just run at the beginning of a call and a provider in service
\* still has its count of 1 or 2 failures, the last of them more than 600 s
\* back: the call's order puts it behind a provider of lower priority that
\* has no failures and no recent success either
C30Witness ==
    /\ last_cleanup = now /\ now > StartTime
    /\ \E t \in DOMAIN turn, m \in Models :
          /\ turn[t].pc = "calling" /\ turn[t].calls = 0
          /\ health[m].is_working
          /\ health[m].consecutive_failures \in {1, 2}
          /\ now - health[m].last_failure_time > 600
          /\ Len(turn[t].cands) = 2 /\ turn[t].cands[2] = m
          /\ LET o == turn[t].cands[1]
             IN  /\ health[o].is_working /\ health[o].consecutive_failures = 0
                 /\ priority[o] < priority[m]
                 /\ now - health[o].last_success_time >= 600

====
